---- MODULE Spec2Model ----
(***************************************************************************)
(* EventsApp-Tanstack: the EventDetails view (read query, two-step delete  *)
(* confirmation, delete mutation) and the EditEvent view (read query, form *)
(* submission through the router, route loader and route action), sharing  *)
(* one query-cache entry ['events', id] and one backend record.            *)
(*                                                                         *)
(* The query cache (useQuery / useMutation / queryClient) and the router   *)
(* (useSubmit / useNavigation / navigate / redirect) are the libraries the *)
(* components are written against; their state is modelled as far as the  *)
(* components read it (status, data, error, isInvalidated, fetchStatus;    *)
(* navigation state, current route, route error).                          *)
(*                                                                         *)
(* Fetches are the ones the source starts: the query's first fetch on      *)
(* mount, the loader's fetchQuery and the refetch of invalidateQueries.    *)
(* The route action runs as the source writes it, one await at a time; an  *)
(* action whose navigation has been ended keeps running and its result is  *)
(* dropped by the router.                                                  *)
(***************************************************************************)
EXTENDS Naturals, Sequences, FiniteSets

\* ------------------------------------------------------------------ bounds
\* Route-action invocations that may be running together (length of acts).
MaxSubmits == 2
\* Delete calls that may be in flight together before the model stops adding.
MaxInFlight == 2

\* ------------------------------------------------------------------ values
Titles == {"Old", "New"}
NoData == "undefined"
NoError == "null"
\* The message carried by a rejected backend call; "" is "none supplied".
Msgs == {"", "conflict"}

FetchFallback == "Failed to fetch event data, please try again later"
EditFallback == "Faled to load event. Please check your inputs and try again later"
DeleteFallback == "Failed to delete event, please trye again later."

VARIABLES
    route,        \* "details" | "edit" (EventDetails with EditEvent in its Outlet) | "events"
    navState,     \* useNavigation().state: "idle" | "loading" | "submitting"
    routeError,   \* "none" | "loader" | "action": an error thrown to the router
    loaderPending,\* the edit route's loader is awaiting its fetchQuery
    isDeleting,   \* EventDetails' useState flag
    mut,          \* the delete mutation's observer state: [status, error]
    delFailed,    \* some delete call of this EventDetails instance has been rejected
    delInFlight,  \* delete requests issued and not yet settled
    query,        \* the cache entry ['events', id]
    backend,      \* the backend's record: [exists, title]
    form,         \* the title currently entered in the edit form
    acts,         \* the running invocations of the route action, in submission order
    delFx,        \* what the callbacks of the last settled delete call issued, in order
    ret           \* what the last route action to return or throw did, in order

vars == <<route, navState, routeError, loaderPending, isDeleting, mut, delFailed,
          delInFlight, query, backend, form, acts, delFx, ret>>

\* ------------------------------------------------------------- query cache
QFetch(q) ==
    IF q.data = NoData
    THEN [q EXCEPT !.fetching = TRUE, !.status = "pending", !.error = NoError]
    ELSE [q EXCEPT !.fetching = TRUE]

QSuccess(q, d) ==
    [status |-> "success", data |-> d, error |-> NoError,
     isInvalidated |-> FALSE, fetching |-> FALSE]

QError(q, m) ==
    [q EXCEPT !.status = "error", !.error = m, !.fetching = FALSE]

\* invalidateQueries: every matching query is marked invalidated; with
\* refetchType 'active' a query that has a mounted observer is refetched.
QInvalidate(q, refetchType, active) ==
    IF refetchType = "active" /\ active
    THEN QFetch([q EXCEPT !.isInvalidated = TRUE])
    ELSE [q EXCEPT !.isInvalidated = TRUE]

\* cancel({revert: true}) when the last observer unsubscribes mid-fetch.
QUnmount(q) == [q EXCEPT !.fetching = FALSE]

\* ---------------------------------------------------------------- renders
DetailsMounted == route \in {"details", "edit"}
EditMounted == route = "edit" /\ routeError = "none"

ErrorText(m, fallback) == IF m \notin {"", NoError} THEN m ELSE fallback

\* EventDetails lines 56-110: three ifs in sequence, the later one wins.
DetailsContent(q) ==
    IF q.data # NoData THEN "loaded"
    ELSE IF q.status = "error" THEN "error"
    ELSE IF q.status = "pending" THEN "loading"
    ELSE "none"

\* EditEvent lines 59-109.
EditContent(q) ==
    IF q.data # NoData THEN "form"
    ELSE IF q.status = "error" THEN "error"
    ELSE "none"

\* The message of the read's error block in each view.
DetailsErrorText == ErrorText(query.error, FetchFallback)
EditErrorText == ErrorText(query.error, EditFallback)

\* EventDetails lines 114-136: what the confirmation dialog shows.
DialogShown == DetailsMounted /\ isDeleting
DialogProgress == DialogShown /\ mut.status = "pending"
\* (variant: the controls are rendered without the isPendingDeletion test)
DialogControlsAlways == DialogShown
DialogControls == DialogShown /\ ~(mut.status = "pending")
DialogError == DialogShown /\ mut.status = "error"
DialogErrorText == ErrorText(mut.error, DeleteFallback)

\* EditEvent lines 92-109: what stands in the form's actions slot.
\* (variant: the controls are rendered without the state === 'submitting' test)
EditActionsAlways(q, st) ==
    IF EditContent(q) # "form" THEN "none" ELSE "controls"
EditActions(q, st) ==
    IF EditContent(q) # "form" THEN "none"
    ELSE IF st = "submitting" THEN "sending" ELSE "controls"

\* ------------------------------------------------------------ route action
Stage(a) ==
    IF a.trace = <<>> THEN "start"
    ELSE LET e == a.trace[Len(a.trace)] IN
         CASE e = "update" -> "updating"
           [] e = "invalidate" -> "invalidating"
           [] e = "invalidateResolved" -> "redirecting"
           [] OTHER -> "returned"

\* The navigation an action was called for is ended by a later navigation.
Interrupt(as) == [i \in DOMAIN as |-> [as[i] EXCEPT !.live = FALSE]]

\* The EditEvent instance that submitted is unmounted.
Unmount(as) == [i \in DOMAIN as |-> [as[i] EXCEPT !.live = FALSE, !.cur = FALSE]]

\* The promise of an earlier invalidateQueries resolves when its refetch
\* settles or is cancelled.
ResolveInvalidations(as) ==
    [i \in DOMAIN as |->
        IF Stage(as[i]) = "invalidating"
        THEN [as[i] EXCEPT !.trace = Append(@, "invalidateResolved")]
        ELSE as[i]]

\* as without its i-th element: an invocation that has returned or thrown.
Remove(as, i) == SubSeq(as, 1, i - 1) \o SubSeq(as, i + 1, Len(as))

\* Update requests in flight that the mounted EditEvent instance submitted.
UpdatesInFlight ==
    Cardinality({i \in DOMAIN acts : Stage(acts[i]) = "updating" /\ acts[i].cur})

\* --------------------------------------------------------------------- Init
Init ==
    /\ route = "details"
    /\ navState = "idle"
    /\ routeError = "none"
    /\ loaderPending = FALSE
    /\ isDeleting = FALSE
    /\ mut = [status |-> "idle", error |-> NoError]
    /\ delFailed = FALSE
    /\ delInFlight = 0
    /\ query = [status |-> "pending", data |-> NoData, error |-> NoError,
                isInvalidated |-> FALSE, fetching |-> TRUE]
    /\ backend = [exists |-> TRUE, title |-> "Old"]
    /\ form = NoData
    /\ acts = <<>>
    /\ delFx = <<>>
    /\ ret = <<>>


\* ------------------------------------------------------------ read query
InvalidateFx(refetchType, active) ==
    IF refetchType = "active" /\ active THEN <<"invalidate", "fetch">> ELSE <<"invalidate">>

\* The edit route's loader (EditEvent.jsx 114-119) returns what its
\* fetchQuery settles with: the route is entered, or the error is the route's.
LoaderDone(ok) ==
    IF loaderPending
    THEN /\ loaderPending' = FALSE
         /\ navState' = "idle"
         /\ IF ok
            THEN /\ route' = "edit"
                 /\ form' = query'.data
                 /\ routeError' = "none"
            ELSE /\ routeError' = "loader"
                 /\ UNCHANGED <<route, form>>
    ELSE UNCHANGED <<loaderPending, navState, route, form, routeError>>

\* fetchEvent resolves with the backend's record.
FetchSucceed ==
    /\ query.fetching
    /\ backend.exists
    /\ query' = QSuccess(query, backend.title)
    /\ acts' = ResolveInvalidations(acts)
    /\ LoaderDone(TRUE)
    /\ UNCHANGED <<delFx, ret, isDeleting, mut, delFailed, delInFlight, backend>>

\* fetchEvent rejects (after the library's retries), with or without a message.
FetchFail(m) ==
    /\ query.fetching
    /\ query' = QError(query, m)
    /\ acts' = ResolveInvalidations(acts)
    /\ LoaderDone(FALSE)
    /\ UNCHANGED <<delFx, ret, isDeleting, mut, delFailed, delInFlight, backend>>

\* ------------------------------------------------------------ EventDetails
\* Lines 80-94: the header, with the Delete button and the Edit link, is part
\* of the loaded content. Lines 138-142: the View all Events link is rendered
\* in every state of the view.
HeaderRendered == DetailsMounted /\ DetailsContent(query) = "loaded"
ListLinkRendered == DetailsMounted

\* Modal is not among the sources. The confirmation and the edit form are
\* modal dialogs: while one is shown, the page behind it (the header's
\* controls, the View all Events link) cannot be used.
ModalOpen == DialogShown \/ EditMounted

\* (variant: the header button deletes at once, as if wired to handleDelete)
handleStartDeleteAlsoDeletes ==
    /\ HeaderRendered
    /\ ~ModalOpen
    /\ delInFlight < MaxInFlight
    /\ isDeleting' = TRUE
    /\ mut' = [status |-> "pending", error |-> NoError]
    /\ delInFlight' = delInFlight + 1
    /\ delFx' = <<>>
    /\ UNCHANGED <<ret, route, navState, routeError, loaderPending, delFailed,
                   query, backend, form, acts>>

handleStartDelete ==
    /\ HeaderRendered
    /\ ~ModalOpen
    /\ isDeleting' = TRUE
    /\ UNCHANGED <<delFx, ret, route, navState, routeError, loaderPending, mut, delFailed,
                   delInFlight, query, backend, form, acts>>

\* (variant: closing the dialog also resets the mutation)
handleStopDeleteResets ==
    /\ DialogShown
    /\ isDeleting' = FALSE
    /\ mut' = [status |-> "idle", error |-> NoError]
    /\ UNCHANGED <<delFx, ret, route, navState, routeError, loaderPending, delFailed,
                   delInFlight, query, backend, form, acts>>

\* The dialog's Cancel button (rendered with the controls) and the Modal's
\* onClose (whenever the dialog is shown) both call handleStopDelete.
handleStopDelete ==
    /\ \E via \in {"cancel", "close"} :
          IF via = "cancel" THEN DialogControls ELSE DialogShown
    /\ isDeleting' = FALSE
    /\ UNCHANGED <<delFx, ret, route, navState, routeError, loaderPending, mut, delFailed,
                   delInFlight, query, backend, form, acts>>

\* mutate({id}): the observer goes to pending with its error cleared and
\* deleteEvent is called.
handleDelete ==
    /\ DialogControls
    /\ delInFlight < MaxInFlight
    /\ mut' = [status |-> "pending", error |-> NoError]
    /\ delInFlight' = delInFlight + 1
    /\ delFx' = <<>>
    /\ UNCHANGED <<ret, route, navState, routeError, loaderPending, isDeleting, delFailed,
                   query, backend, form, acts>>

\* (variant: refetchType left at its default)
DeleteRefetchTypeActive == "active"
DeleteRefetchType == "none"

\* deleteEvent resolved: onSuccess invalidates, then navigates to /events,
\* which unmounts EventDetails (and EditEvent) and ends any pending navigation.
DeleteSucceed ==
    /\ delInFlight > 0
    /\ backend.exists
    /\ backend' = [backend EXCEPT !.exists = FALSE]
    /\ delInFlight' = delInFlight - 1
    /\ mut' = [status |-> "success", error |-> NoError]
    /\ query' = QUnmount(QInvalidate(query, DeleteRefetchType, DetailsMounted))
    /\ route' = "events"
    /\ navState' = "idle"
    /\ loaderPending' = FALSE
    /\ isDeleting' = FALSE
    /\ acts' = Unmount(ResolveInvalidations(acts))
    /\ form' = NoData
    /\ delFx' = InvalidateFx(DeleteRefetchType, DetailsMounted) \o <<"navigate:/events">>
    /\ routeError' = "none"
    /\ UNCHANGED <<delFailed, ret>>

\* (variant: onError also closes the dialog)
DeleteFailClosesDialog(m) ==
    /\ delInFlight > 0
    /\ delInFlight' = delInFlight - 1
    /\ mut' = [status |-> "error", error |-> m]
    /\ delFailed' = TRUE
    /\ isDeleting' = FALSE
    /\ delFx' = <<"log">>
    /\ UNCHANGED <<ret, route, navState, routeError, loaderPending,
                   query, backend, form, acts>>

\* deleteEvent rejected: onError only logs.
DeleteFail(m) ==
    /\ delInFlight > 0
    /\ delInFlight' = delInFlight - 1
    /\ mut' = [status |-> "error", error |-> m]
    /\ delFailed' = TRUE
    /\ delFx' = <<"log">>
    /\ UNCHANGED <<ret, route, navState, routeError, loaderPending, isDeleting,
                   query, backend, form, acts>>


\* <Link to="/events">View all Events</Link>: the view is left for the
\* listing and unmounted; a fetch under way is cancelled, a delete call or a
\* route action under way keeps running.
viewAllEvents ==
    /\ ListLinkRendered
    /\ ~ModalOpen
    /\ route' = "events"
    /\ navState' = "idle"
    /\ routeError' = "none"
    /\ loaderPending' = FALSE
    /\ isDeleting' = FALSE
    /\ query' = QUnmount(query)
    /\ acts' = Unmount(ResolveInvalidations(acts))
    /\ form' = NoData
    /\ UNCHANGED <<mut, delFailed, delInFlight, backend, delFx, ret>>

\* --------------------------------------------------------------- EditEvent
\* The Edit link of EventDetails' header: the router runs the edit route's
\* loader, queryClient.fetchQuery (staleTime 0: it fetches, or joins the
\* fetch already under way), before it enters the route.
loader ==
    /\ HeaderRendered
    /\ ~ModalOpen
    /\ ~loaderPending
    /\ navState' = "loading"
    /\ loaderPending' = TRUE
    /\ acts' = Interrupt(acts)
    /\ query' = QFetch(query)
    /\ UNCHANGED <<delFx, ret, route, routeError, isDeleting, mut, delFailed, delInFlight,
                   backend, form>>

\* The user types into the form (EventForm keeps the fields).
EditField(t) ==
    /\ EditMounted
    /\ EditContent(query) = "form"
    /\ t # form
    /\ form' = t
    /\ UNCHANGED <<delFx, ret, route, navState, routeError, loaderPending, isDeleting, mut,
                   delFailed, delInFlight, query, backend, acts>>

\* The Update button is in the form only when the controls are rendered.
\* submit(formData, {method: 'PUT'}) starts a submitting navigation, ending
\* the one before it; the router will call the route's action.
handleSubmit ==
    /\ EditMounted
    /\ EditActions(query, navState) = "controls"
    /\ Len(acts) < MaxSubmits
    /\ acts' = Append(Interrupt(acts),
                      [method |-> "PUT", title |-> form, cur |-> TRUE, live |-> TRUE,
                       trace |-> <<>>])
    /\ navState' = "submitting"
    /\ UNCHANGED <<delFx, ret, route, routeError, loaderPending, isDeleting, mut, delFailed,
                   delInFlight, query, backend, form>>

\* (variant: closing submits the form before it navigates)
handleCloseSubmits ==
    /\ EditMounted
    /\ Len(acts) < MaxSubmits
    /\ route' = "details"
    /\ navState' = "idle"
    /\ acts' = Unmount(Append(acts, [method |-> "PUT", title |-> form, cur |-> TRUE,
                                     live |-> TRUE, trace |-> <<>>]))
    /\ form' = NoData
    /\ UNCHANGED <<delFx, ret, routeError, loaderPending, isDeleting, mut, delFailed,
                   delInFlight, query, backend>>

\* navigate('../'): the modal's onClose in every state of the view, and the
\* Cancel link when the controls are rendered. The submitting navigation, if
\* any, is ended; the action already called keeps running.
handleClose ==
    /\ EditMounted
    /\ route' = "details"
    /\ navState' = "idle"
    /\ acts' = Unmount(acts)
    /\ form' = NoData
    /\ UNCHANGED <<delFx, ret, routeError, loaderPending, isDeleting, mut, delFailed,
                   delInFlight, query, backend>>

\* action, lines 121-123: the form data is read and updateEvent is called.
ActionStart(i) ==
    /\ Stage(acts[i]) = "start"
    /\ acts' = [acts EXCEPT ![i].trace = <<"update">>]
    /\ UNCHANGED <<route, navState, routeError, loaderPending, isDeleting, mut,
                   delFailed, delInFlight, query, backend, form, delFx, ret>>

ActionRefetchType == "active"

\* (variant: the redirect is returned without the invalidation)
UpdateSucceedRedirectFirst(i) ==
    /\ Stage(acts[i]) = "updating"
    /\ backend.exists
    /\ backend' = [backend EXCEPT !.title = acts[i].title]
    /\ IF acts[i].live
       THEN /\ route' = "details"
            /\ navState' = "idle"
            /\ form' = NoData
            /\ acts' = Unmount(Remove(acts, i))
       ELSE /\ acts' = Remove(acts, i)
            /\ UNCHANGED <<route, navState, form>>
    /\ ret' = acts[i].trace \o <<"updateResolved", "redirect:../">>
    /\ UNCHANGED <<delFx, routeError, loaderPending, isDeleting, mut, delFailed,
                   delInFlight, query>>

\* action, lines 123-124: updateEvent resolved, the record is the backend's;
\* invalidateQueries is called and awaited. Its refetch of the mounted views'
\* query replaces a fetch under way; with no view mounted it resolves at once.
UpdateSucceed(i) ==
    /\ Stage(acts[i]) = "updating"
    /\ backend.exists
    /\ backend' = [backend EXCEPT !.title = acts[i].title]
    /\ query' = QInvalidate(query, ActionRefetchType, DetailsMounted)
    /\ acts' = [ResolveInvalidations(acts) EXCEPT ![i].trace =
                   @ \o <<"updateResolved", "invalidate">>
                     \o (IF query'.fetching THEN <<>> ELSE <<"invalidateResolved">>)]
    /\ UNCHANGED <<route, navState, routeError, loaderPending, isDeleting, mut,
                   delFailed, delInFlight, form, delFx, ret>>

\* action, line 123: updateEvent rejected; nothing catches it, the action's
\* promise rejects, and the router takes the error as the route's unless the
\* submitting navigation has been ended meanwhile.
UpdateFail(i, m) ==
    /\ Stage(acts[i]) = "updating"
    /\ IF acts[i].live
       THEN /\ routeError' = "action"
            /\ navState' = "idle"
            /\ form' = NoData
            /\ acts' = Unmount(Remove(acts, i))
       ELSE /\ acts' = Remove(acts, i)
            /\ UNCHANGED <<routeError, navState, form>>
    /\ ret' = acts[i].trace \o <<"updateRejected", "throw">>
    /\ UNCHANGED <<delFx, route, loaderPending, isDeleting, mut, delFailed, delInFlight,
                   query, backend>>

\* action, line 125: the awaited invalidation has resolved; redirect('../') is
\* returned, and followed by the router if the navigation is still the
\* current one.
ActionReturn(i) ==
    /\ Stage(acts[i]) = "redirecting"
    /\ IF acts[i].live
       THEN /\ route' = "details"
            /\ navState' = "idle"
            /\ form' = NoData
            /\ acts' = Unmount(Remove(acts, i))
       ELSE /\ acts' = Remove(acts, i)
            /\ UNCHANGED <<route, navState, form>>
    /\ ret' = Append(acts[i].trace, "redirect:../")
    /\ UNCHANGED <<delFx, routeError, loaderPending, isDeleting, mut, delFailed,
                   delInFlight, query, backend>>

\* --------------------------------------------------------------------- Next
Next ==
    \/ FetchSucceed
    \/ \E m \in Msgs : FetchFail(m)
    \/ handleStartDelete
    \/ handleStopDelete
    \/ handleDelete
    \/ DeleteSucceed
    \/ \E m \in Msgs : DeleteFail(m)
    \/ viewAllEvents
    \/ loader
    \/ \E t \in Titles : EditField(t)
    \/ handleSubmit
    \/ handleClose
    \/ \E i \in DOMAIN acts : ActionStart(i)
    \/ \E i \in DOMAIN acts : UpdateSucceed(i)
    \/ \E i \in DOMAIN acts, m \in Msgs : UpdateFail(i, m)
    \/ \E i \in DOMAIN acts : ActionReturn(i)

Spec == Init /\ [][Next]_vars


\* =================================================================== claims
UpdateTrace == <<"update", "updateResolved", "invalidate", "invalidateResolved", "redirect:../">>
IsPrefix(a, b) == Len(a) <= Len(b) /\ SubSeq(b, 1, Len(a)) = a
Ends(seq, e) == seq # <<>> /\ seq[Len(seq)] = e

\* A delete call settles in this step with a rejection / with success.
DeleteRejectedStep == delInFlight' < delInFlight /\ mut'.status = "error"
DeleteResolvedStep == backend.exists /\ ~backend'.exists
\* The i-th running action's update resolves in this step.
UpdateResolvedStep(i) ==
    /\ Stage(acts[i]) = "updating"
    /\ Len(acts') = Len(acts)
    /\ Stage(acts'[i]) \in {"invalidating", "redirecting"}
\* EditEvent is left for its parent route and no action has returned (a
\* returning action leaves acts).
CloseStep == route = "edit" /\ route' = "details" /\ Len(acts') >= Len(acts)

\* C1: at most one delete request is in flight from the view; while one is
\* pending the dialog shows the progress message and neither Cancel nor
\* Delete, however the dialog was closed and reopened meanwhile; and a delete
\* call is issued only by a click on the rendered Delete control, one per click.
C1_OneDeleteInFlight ==
    /\ [](/\ delInFlight <= 1
          /\ (DetailsMounted /\ mut.status = "pending") =>
                 /\ delInFlight = 1
                 /\ ~DialogControls
                 /\ (isDeleting => DialogProgress))
    /\ [][delInFlight' > delInFlight =>
             /\ DialogControls
             /\ delInFlight = 0
             /\ delInFlight' = 1
             /\ mut'.status = "pending"]_vars

\* C1 witness: a retry after a failed delete is pending with the dialog open.
C1_Witness == DialogProgress /\ delInFlight = 1 /\ delFailed

\* C2: the step in which a delete resolves is the only one in which the
\* mutation's callbacks invalidate and navigate; it issues the invalidation
\* first and the navigation to /events second, the call having been pending
\* until then, and the invalidation marks the entry invalidated and starts no fetch.
C2_DeleteSuccessOrder ==
    /\ [][DeleteResolvedStep =>
             /\ delInFlight > 0
             /\ mut.status = "pending"
             /\ mut'.status = "success"
             /\ delFx' = <<"invalidate", "navigate:/events">>
             /\ query'.isInvalidated
             /\ ~query'.fetching
             /\ query'.data = query.data
             /\ route' = "events"]_vars
    /\ [][delFx' # delFx /\ Ends(delFx', "navigate:/events") => DeleteResolvedStep]_vars
    /\ [](Ends(delFx, "navigate:/events") => (~backend.exists /\ query.isInvalidated))

\* C2 witness: a delete has succeeded.
C2_Witness ==
    /\ route = "events"
    /\ delFx = <<"invalidate", "navigate:/events">>
    /\ query.isInvalidated
    /\ ~backend.exists

\* C3 as stated: whenever a delete call fails, the view is then in Confirming
\* with the flag true, the error block and the Cancel and Delete controls shown.
C3_AsStated ==
    [][DeleteRejectedStep =>
          /\ isDeleting'
          /\ DialogError'
          /\ DialogControls']_vars

\* C3 amended: a failed delete issues no invalidation and no navigation and
\* leaves the flag as it was; whenever the dialog is open with the failure
\* recorded, it shows the error block, with the backend's message if there is
\* one and the fallback otherwise, and the Cancel and Delete controls.
C3_FailureKeepsFlag ==
    /\ [][DeleteRejectedStep =>
             /\ isDeleting' = isDeleting
             /\ route' = route
             /\ navState' = navState
             /\ query' = query
             /\ backend' = backend
             /\ delFx' = <<"log">>]_vars
    /\ []((DetailsMounted /\ isDeleting /\ mut.status = "error") =>
             /\ DialogError
             /\ DialogControls
             /\ ~DialogProgress
             /\ DialogErrorText = (IF mut.error = "" THEN DeleteFallback ELSE mut.error))

\* C3 witness: the dialog is open after a failure that carried no message.
C3_Witness ==
    /\ DialogError
    /\ DialogControls
    /\ mut.error = ""
    /\ DialogErrorText = DeleteFallback
    /\ delFx = <<"log">>

\* C4: a submission only enqueues a PUT for the router (no update call is
\* issued and the backend is untouched in that step); every action runs a
\* prefix of update, invalidate, redirect in that order, each awaited before
\* the next, and one that returns has run exactly that sequence; the backend
\* record changes only when a running action's update resolves.
C4_SubmitThenActionOrder ==
    /\ [][Len(acts') > Len(acts) =>
             /\ EditActions(query, navState) = "controls"
             /\ Len(acts') = Len(acts) + 1
             /\ acts'[Len(acts')] = [method |-> "PUT", title |-> form, cur |-> TRUE,
                                      live |-> TRUE, trace |-> <<>>]
             /\ \A i \in DOMAIN acts : acts'[i].trace = acts[i].trace
             /\ navState' = "submitting"
             /\ backend' = backend
             /\ query' = query]_vars
    /\ [](\A i \in DOMAIN acts : IsPrefix(acts[i].trace, UpdateTrace))
    /\ [](Ends(ret, "redirect:../") => ret = UpdateTrace)
    /\ [][backend'.title # backend.title =>
             \E i \in DOMAIN acts : UpdateResolvedStep(i) /\ backend'.title = acts[i].title]_vars

\* C4 witness: an action has returned its redirect and the edit is the backend's.
C4_Witness == ret = UpdateTrace /\ route = "details" /\ backend.title = "New"

\* C5 as stated: no route action ends by throwing, and no error of the
\* update reaches the router.
C5_NoUncaughtUpdateError == routeError # "action" /\ ~Ends(ret, "throw")

\* C6: while the navigation is submitting, EditEvent renders the sending
\* message in place of Update and Cancel; the mounted instance has at most
\* one update in flight, and while its action has not got past the update
\* the navigation is submitting.
C6_ControlsHiddenWhileSubmitting ==
    /\ (EditMounted /\ navState = "submitting") => EditActions(query, navState) = "sending"
    /\ UpdatesInFlight <= 1
    /\ \A i \in DOMAIN acts :
          (EditMounted /\ acts[i].cur /\ Stage(acts[i]) \in {"start", "updating"})
             => navState = "submitting"

\* C6 witness: an update of the mounted form is in flight beside one that an
\* earlier instance of the form left running.
C6_Witness ==
    /\ EditMounted
    /\ navState = "submitting"
    /\ UpdatesInFlight = 1
    /\ Len(acts) = 2
    /\ \A i \in DOMAIN acts : Stage(acts[i]) = "updating"

\* C7 as stated: whenever the read is in the failed state, the error block is
\* what EventDetails, and EditEvent, render (the router showing no error of
\* its own in their place).
C7_ErrorBlockOnFailedRead ==
    /\ (DetailsMounted /\ routeError = "none" /\ query.status = "error")
          => DetailsContent(query) = "error"
    /\ (EditMounted /\ query.status = "error") => EditContent(query) = "error"

\* C8 as stated: once the form has been closed, no update submitted from it
\* changes the backend's record.
C8_AsStated ==
    [][\A i \in DOMAIN acts :
          ~acts[i].cur => ~(UpdateResolvedStep(i) /\ backend'.title # backend.title)]_vars

\* C8 amended: closing navigates to the parent route and issues nothing else:
\* it adds no action, moves none forward and leaves the backend as it is; the
\* backend record changes only by an update that was submitted through the
\* form, which closing does not cancel.
C8_CloseIssuesNoUpdate ==
    /\ [][CloseStep =>
             /\ Len(acts') = Len(acts)
             /\ \A i \in DOMAIN acts :
                   /\ acts'[i].trace = acts[i].trace
                   /\ acts'[i].title = acts[i].title
                   /\ ~acts'[i].cur
                   /\ ~acts'[i].live
             /\ navState' = "idle"
             /\ backend' = backend
             /\ query' = query]_vars
    /\ [][backend'.title # backend.title =>
             \E i \in DOMAIN acts : Stage(acts[i]) = "updating" /\ backend'.title = acts[i].title]_vars

\* C8 witness: the form was closed while its update was in flight.
C8_Witness ==
    /\ route = "details"
    /\ navState = "idle"
    /\ \E i \in DOMAIN acts : ~acts[i].cur /\ Stage(acts[i]) = "updating"

\* C9: a step that opens or closes the confirmation dialog of the mounted
\* view changes the flag and nothing else: no request is issued, no cache
\* entry and no navigation state changes; and it opens only from the header.
C9_ConfirmTogglesFlagOnly ==
    [][(isDeleting' # isDeleting /\ route' # "events") =>
          /\ (isDeleting' => HeaderRendered)
          /\ UNCHANGED <<route, navState, routeError, loaderPending, mut, delFailed,
                         delInFlight, query, backend, form, acts, delFx, ret>>]_vars

\* C9 witness: Confirming entered from Idle, nothing in flight.
C9_Witness ==
    /\ DialogControls
    /\ mut.status = "idle"
    /\ delInFlight = 0
    /\ ~query.fetching

\* C10: a recorded delete failure is cleared only by a new delete call, and
\* opening or closing the dialog leaves the mutation as it is; so in
\* Confirming (dialog open, no call pending) the error block is shown exactly
\* when some delete call of this view has failed.
C10_ErrorClearedOnlyByDelete ==
    /\ [][(mut.status = "error" /\ mut' # mut) =>
             /\ mut'.status = "pending"
             /\ delInFlight' = delInFlight + 1]_vars
    /\ [][isDeleting' # isDeleting => mut' = mut \/ route' = "events"]_vars
    /\ [](DialogControls => (DialogError <=> delFailed))

\* C10 witness: Confirming shows the error, with the backend's message.
C10_Witness ==
    /\ DialogControls
    /\ DialogError
    /\ DialogErrorText = "conflict"
    /\ ~query.fetching

====
